---- MODULE Spec2Model ----
(***************************************************************************)
(* Model of the PL/0 lexer of src/pl0/lexer.c: the scanner state           *)
(* (source_buf cursor, line counter), the lex() function with its helpers  *)
(* comment(), ident(), number(), get_token(), and the driver loop parse(). *)
(* Characters are one-character strings; a C string is a sequence of       *)
(* characters; the source buffer is a sequence that ends with NUL.         *)
(* source_buf is kept as a 0-based offset from anchor: the character at    *)
(* offset c is b[c + 1].                                                   *)
(***************************************************************************)
EXTENDS Integers, Sequences, FiniteSets, TLC

VARIABLES buf, cursor, line, t, startp, entry, pc, out, errs, status, live,
          cli, usage

vars == <<buf, cursor, line, t, startp, entry, pc, out, errs, status, live,
          cli, usage>>

(* ------------------------------ bounds -------------------------------- *)

\* number of pieces concatenated to make an input file
MaxPieces == 2

(* ---------------------------- characters ------------------------------ *)

NUL == "NUL"
NL == "\n"

Lower == {"a","b","c","d","e","f","g","h","i","j","k","l","m",
          "n","o","p","q","r","s","t","u","v","w","x","y","z"}
Upper == {"A","B","C","D","E","F","G","H","I","J","K","L","M",
          "N","O","P","Q","R","S","T","U","V","W","X","Y","Z"}
DigitChars == <<"0","1","2","3","4","5","6","7","8","9">>

isdigit(ch) == \E i \in 1..10 : DigitChars[i] = ch
isalpha(ch) == ch \in Lower \cup Upper
isalnum(ch) == isalpha(ch) \/ isdigit(ch)
isspace(ch) == ch \in {" ", "\t", "\n", "\f", "\r"}

\* a C string read from a character array: the characters before the first NUL
RECURSIVE CStr(_)
CStr(a) == IF a = <<>> \/ Head(a) = NUL THEN <<>> ELSE <<Head(a)>> \o CStr(Tail(a))

(* ------------------------------ inputs -------------------------------- *)

Nines == [i \in 1..20 |-> "9"]
LongMaxDigits == <<"9","2","2","3","3","7","2","0","3","6","8","5","4","7","7","5","8","0","7">>
LongMaxPlus1 == <<"9","2","2","3","3","7","2","0","3","6","8","5","4","7","7","5","8","0","8">>

Keywords == { <<"c","o","n","s","t">>, <<"v","a","r">>,
              <<"p","r","o","c","e","d","u","r","e">>, <<"c","a","l","l">>,
              <<"b","e","g","i","n">>, <<"e","n","d">>, <<"i","f">>,
              <<"t","h","e","n">>, <<"w","h","i","l","e">>, <<"d","o">>,
              <<"o","d","d">> }

SymbolChars == {"=", "#", "<", ">", "+", "-", "*", "/", "(", ")", ".", ",", ";"}

Pieces == { <<ch>> : ch \in SymbolChars \cup {"x", "_", "7", "0", " ", NL, ":", "{", "}", "!"} }
          \cup Keywords
          \cup { <<"I","F">>, <<":","=">>, <<"{","x","}">>, <<"{",NL,"}">>, <<"{","{","}">>,
                 Nines, LongMaxDigits, LongMaxPlus1 }

RECURSIVE InputsOf(_)
InputsOf(n) == IF n = 0 THEN {<<>>}
               ELSE LET prev == InputsOf(n - 1)
                    IN prev \cup { s \o p : s \in prev, p \in Pieces }

Inputs == InputsOf(MaxPieces)

(* ------------------------------ helpers ------------------------------- *)

\* offset of the terminating null
NullOffset(b) == (CHOOSE i \in 1..Len(b) : b[i] = NUL /\ \A j \in 1..(i-1) : b[j] # NUL) - 1

\* get_token with a length that is one too small
get_tokenShort(b, s, e) == [i \in 1..(e - s - 1) |-> b[s + i]]

\* lexer.c:149 get_token: copy of the characters at offsets startp..endp-1
get_token(b, s, e) == [i \in 1..(e - s) |-> b[s + i]]

\* lexer.c:163 make_token
make_token(value, type) == [value |-> value, type |-> type]

\* result of one pass of lex() from the label start: a returned token, a call
\* of die(), or a comment skipped followed by goto start
Token(c, l, s, tok) ==
    [kind |-> "token", cursor |-> c, line |-> l, startp |-> s, tok |-> tok,
     msg |-> "", arg |-> ""]
Die(c, l, s, msg, arg) ==
    [kind |-> "die", cursor |-> c, line |-> l, startp |-> s,
     tok |-> make_token(<<>>, "IDENT"), msg |-> msg, arg |-> arg]
Again(c, l, s) ==
    [kind |-> "again", cursor |-> c, line |-> l, startp |-> s,
     tok |-> make_token(<<>>, "IDENT"), msg |-> "", arg |-> ""]

\* the whitespace loop without the count of newlines
RECURSIVE SkipSpaceNoCount(_, _, _)
SkipSpaceNoCount(b, c, l) ==
    IF isspace(b[c + 1]) THEN SkipSpaceNoCount(b, c + 1, l) ELSE [cursor |-> c, line |-> l]

\* lexer.c:221-225 the whitespace loop at the head of lex()
RECURSIVE SkipSpace(_, _, _)
SkipSpace(b, c, l) ==
    IF isspace(b[c + 1])
    THEN SkipSpace(b, c + 1, IF b[c + 1] = NL THEN l + 1 ELSE l)
    ELSE [cursor |-> c, line |-> l]

\* comment() without the count of newlines
RECURSIVE commentNoCount(_, _, _)
commentNoCount(b, c, l) ==
    LET ch == b[c + 1]
    IN IF ch = "}" THEN [cursor |-> c + 1, line |-> l, died |-> FALSE]
       ELSE IF ch = NUL THEN [cursor |-> c + 1, line |-> l, died |-> TRUE]
       ELSE commentNoCount(b, c + 1, l)

\* comment() with nesting: an inner opening brace needs its own closing brace
RECURSIVE commentDepth(_, _, _, _)
commentDepth(b, c, l, d) ==
    LET ch == b[c + 1]
    IN IF ch = "}" /\ d = 1 THEN [cursor |-> c + 1, line |-> l, died |-> FALSE]
       ELSE IF ch = NUL THEN [cursor |-> c + 1, line |-> l, died |-> TRUE]
       ELSE commentDepth(b, c + 1, IF ch = NL THEN l + 1 ELSE l,
                         IF ch = "{" THEN d + 1 ELSE IF ch = "}" THEN d - 1 ELSE d)

commentNesting(b, c, l) == commentDepth(b, c, l, 0)

\* comment() that takes the terminating null for the end of the comment
RECURSIVE commentEndsAtNull(_, _, _)
commentEndsAtNull(b, c, l) ==
    LET ch == b[c + 1]
    IN IF ch = "}" THEN [cursor |-> c + 1, line |-> l, died |-> FALSE]
       ELSE IF ch = NUL THEN [cursor |-> c, line |-> l, died |-> FALSE]
       ELSE commentEndsAtNull(b, c + 1, IF ch = NL THEN l + 1 ELSE l)

\* lexer.c:136-147 comment(): entered with the cursor still on the brace
RECURSIVE comment(_, _, _)
comment(b, c, l) ==
    LET ch == b[c + 1]
    IN IF ch = "}" THEN [cursor |-> c + 1, line |-> l, died |-> FALSE]
       ELSE IF ch = NUL THEN [cursor |-> c + 1, line |-> l, died |-> TRUE]
       ELSE comment(b, c + 1, IF ch = NL THEN l + 1 ELSE l)

\* lexer.c:173-175 end of the run of letters, digits and underscores
RECURSIVE IdentEnd(_, _)
IdentEnd(b, c) == IF isalnum(b[c + 1]) \/ b[c + 1] = "_" THEN IdentEnd(b, c + 1) ELSE c

\* the keyword chain with a prefix comparison (strncmp) for "if"
KeywordTypePrefix(id) ==
    IF      id = <<"c","o","n","s","t">> THEN "CONST"
    ELSE IF id = <<"v","a","r">> THEN "VAR"
    ELSE IF id = <<"p","r","o","c","e","d","u","r","e">> THEN "PROCEDURE"
    ELSE IF id = <<"c","a","l","l">> THEN "CALL"
    ELSE IF id = <<"b","e","g","i","n">> THEN "BEGIN"
    ELSE IF id = <<"e","n","d">> THEN "END"
    ELSE IF Len(id) >= 2 /\ SubSeq(id, 1, 2) = <<"i","f">> THEN "IF"
    ELSE IF id = <<"t","h","e","n">> THEN "THEN"
    ELSE IF id = <<"w","h","i","l","e">> THEN "WHILE"
    ELSE IF id = <<"d","o">> THEN "DO"
    ELSE IF id = <<"o","d","d">> THEN "ODD"
    ELSE "IDENT"

\* lexer.c:181-192 the keyword chain of strcmp calls
KeywordType(id) ==
    IF      id = <<"c","o","n","s","t">> THEN "CONST"
    ELSE IF id = <<"v","a","r">> THEN "VAR"
    ELSE IF id = <<"p","r","o","c","e","d","u","r","e">> THEN "PROCEDURE"
    ELSE IF id = <<"c","a","l","l">> THEN "CALL"
    ELSE IF id = <<"b","e","g","i","n">> THEN "BEGIN"
    ELSE IF id = <<"e","n","d">> THEN "END"
    ELSE IF id = <<"i","f">> THEN "IF"
    ELSE IF id = <<"t","h","e","n">> THEN "THEN"
    ELSE IF id = <<"w","h","i","l","e">> THEN "WHILE"
    ELSE IF id = <<"d","o">> THEN "DO"
    ELSE IF id = <<"o","d","d">> THEN "ODD"
    ELSE "IDENT"

\* lexer.c:169-195 ident()
ident(b, c, l) ==
    LET e == IdentEnd(b, c)
        id == get_token(b, c, e)
    IN Token(e, l, c, make_token(id, KeywordType(id)))

\* lexer.c:201-203 end of the run of digits
RECURSIVE DigitsEnd(_, _)
DigitsEnd(b, c) == IF isdigit(b[c + 1]) THEN DigitsEnd(b, c + 1) ELSE c

DigitVal(ch) == (CHOOSE i \in 1..10 : DigitChars[i] = ch) - 1

RECURSIVE StripZeros(_)
StripZeros(d) == IF d # <<>> /\ Head(d) = "0" THEN StripZeros(Tail(d)) ELSE d

\* d > m for two digit strings of the same length
RECURSIVE DigitsGreater(_, _)
DigitsGreater(d, m) ==
    IF d = <<>> THEN FALSE
    ELSE IF DigitVal(Head(d)) # DigitVal(Head(m)) THEN DigitVal(Head(d)) > DigitVal(Head(m))
    ELSE DigitsGreater(Tail(d), Tail(m))

\* a range check that looks at the number of digits only
StrtolErangeByLength(d) == Len(StripZeros(d)) > Len(LongMaxDigits)

\* lexer.c:208-211 strtol sets errno (ERANGE) when the value exceeds LONG_MAX
StrtolErange(d) ==
    LET s == StripZeros(d)
    IN \/ Len(s) > Len(LongMaxDigits)
       \/ Len(s) = Len(LongMaxDigits) /\ DigitsGreater(s, LongMaxDigits)

\* lexer.c:197-216 number()
number(b, c, l) ==
    LET e == DigitsEnd(b, c)
        tok == get_token(b, c, e)
    IN IF StrtolErange(tok) THEN Die(e, l, c, "Invalid number", "")
       ELSE Token(e, l, c, make_token(tok, "NUMBER"))

\* lexer.c:241-293 the token type set by the one-character cases of the switch
SymbolType(ch) ==
    CASE ch = "=" -> "ASSIGN"
      [] ch = "#" -> "HASH"
      [] ch = "<" -> "LT"
      [] ch = ">" -> "GT"
      [] ch = "+" -> "PLUS"
      [] ch = "-" -> "MINUS"
      [] ch = "*" -> "MULTIPLY"
      [] ch = "/" -> "DIVIDE"
      [] ch = "(" -> "LPAREN"
      [] ch = ")" -> "RPAREN"
      [] ch = "." -> "DOT"
      [] ch = "," -> "COMMA"
      [] ch = ";" -> "SEMICOLON"

\* lexer.c:314-315 value[0] = *source_buf; value[1] = '\0', read as a string;
\* c is the cursor when the statement runs
SymbolValue(b, c) == CStr(<<b[c + 1], NUL>>)

\* a one-character case without the advance of the cursor
symbolNoAdvance(b, c, l) ==
    Token(c, l, c, make_token(SymbolValue(b, c), SymbolType(b[c + 1])))

\* lexer.c:242-293, 314-317 a one-character case: the cursor is advanced in
\* the case, the text is copied after the switch
symbol(b, c, l) ==
    Token(c + 1, l, c, make_token(SymbolValue(b, c + 1), SymbolType(b[c + 1])))

\* case ':' without the second advance of the cursor
assignShort(b, c, l) ==
    IF b[c + 2] # "="
    THEN Die(c + 1, l, c, "Unkown token: '%c'", b[c + 2])
    ELSE Token(c + 1, l, c, make_token(CStr(<<":", "=", NUL>>), "ASSIGN"))

\* lexer.c:295-302 case ':'
assign(b, c, l) ==
    IF b[c + 2] # "="
    THEN Die(c + 1, l, c, "Unkown token: '%c'", b[c + 2])
    ELSE Token(c + 2, l, c, make_token(CStr(<<":", "=", NUL>>), "ASSIGN"))

\* case '\0' with the advance of the cursor of the other cases; the text is
\* then read after the terminating null
eofAdvance(b, c, l) == Token(c + 1, l, c, make_token(<<>>, "DOT"))

\* lexer.c:308, 314-317 case '\0': the cursor is not advanced
eof(b, c, l) == Token(c, l, c, make_token(SymbolValue(b, c), "DOT"))

\* case '{' when comment() works on a copy of the cursor: source_buf stays
\* on the brace
skipcommentStay(b, c, l) ==
    LET r == comment(b, c, l)
    IN IF r.died THEN Die(r.cursor, r.line, c, "Unterminated comment", "")
       ELSE Again(c, r.line, c)

\* lexer.c:304-306 case '{': comment() then goto start
skipcomment(b, c, l) ==
    LET r == comment(b, c, l)
    IN IF r.died THEN Die(r.cursor, r.line, c, "Unterminated comment", "")
       ELSE Again(r.cursor, r.line, c)

\* the default case reporting the character after the offending one
unknownNext(b, c, l) == Die(c + 1, l, c, "Unkown token '%c'", b[c + 2])

\* lexer.c:309-311 default
unknown(b, c, l) == Die(c, l, c, "Unkown token '%c'", b[c + 1])

\* lexer.c:220-317 one pass of lex() from the label start
LexPass(b, c0, l0) ==
    LET s == SkipSpace(b, c0, l0)
        c == s.cursor
        l == s.line
        ch == b[c + 1]
    IN IF isalpha(ch) \/ ch = "_" THEN ident(b, c, l)
       ELSE IF isdigit(ch) THEN number(b, c, l)
       ELSE IF ch \in SymbolChars THEN symbol(b, c, l)
       ELSE IF ch = ":" THEN assign(b, c, l)
       ELSE IF ch = "{" THEN skipcomment(b, c, l)
       ELSE IF ch = NUL THEN eof(b, c, l)
       ELSE unknown(b, c, l)

\* lexer.c:218-318 lex(): passes repeated while a comment was skipped
RECURSIVE lex(_, _, _)
lex(b, c, l) ==
    LET r == LexPass(b, c, l)
    IN IF r.kind = "again" THEN lex(b, r.cursor, r.line) ELSE r

\* the highest offset of the source buffer read by the pass of lex() that
\* gave the result r: the character that ends the run in ident() and number()
\* (lexer.c:173, 201), the look-ahead after ':' (lexer.c:296-297), the last
\* character read by comment() (lexer.c:139), the character copied into the
\* text of a one-character token or of the end of input (lexer.c:314), the
\* character of the switch in the default case (lexer.c:241, 310)
HighRead(b, r) ==
    LET s == r.startp
        ch == b[s + 1]
    IN IF isalpha(ch) \/ ch = "_" \/ isdigit(ch) THEN r.cursor
       ELSE IF ch = ":" THEN s + 1
       ELSE IF ch = "{" THEN r.cursor - 1
       ELSE IF ch \in SymbolChars \/ ch = NUL THEN r.cursor
       ELSE s

\* the character the switch of lex() dispatches on
SwitchChar == buf[SkipSpace(buf, cursor, line).cursor + 1]

(* ------------------------------- state -------------------------------- *)

\* lexer.c:53-55, 324 after readfile(): the line counter is 1, source_buf is
\* at anchor, the token of parse() is zeroed (type IDENT, value NULL)
Init ==
    /\ buf \in { s \o <<NUL>> : s \in Inputs }
    /\ cursor = 0
    /\ line = 1
    /\ t = make_token(<<>>, "IDENT")
    /\ startp = 0
    /\ entry = 0
    /\ pc = "loop"
    /\ out = <<>>
    /\ errs = <<>>
    /\ status = -1
    /\ live = 0
    /\ cli = [argc |-> 2, file |-> <<"a", ".", "p", "l", "0">>, env |-> "ok",
              content |-> SubSeq(buf, 1, Len(buf) - 1)]
    /\ usage = <<>>

\* a loop condition that stops only at the token of the end of input
KeepGoingUntilEmpty(tok) == tok.value # <<>>

\* lexer.c:325 the loop condition of parse()
KeepGoing(tok) == tok.type # "DOT"

\* lexer.c:325-326 the loop test passes and lex() is called
LoopEnter ==
    /\ pc = "loop"
    /\ KeepGoing(t)
    /\ pc' = "lex"
    /\ entry' = cursor
    /\ UNCHANGED <<buf, cursor, line, t, startp, out, errs, status, live, cli, usage>>

\* lexer.c:325, 330, 343-345 the loop ends: "done" is printed, main returns 0
LoopExit ==
    /\ pc = "loop"
    /\ ~KeepGoing(t)
    /\ pc' = "done"
    /\ status' = 0
    /\ UNCHANGED <<buf, cursor, line, t, startp, entry, out, errs, live, cli, usage>>

\* the effect of a pass when die() prints the diagnostic and returns: lex
\* returns to parse() with the token left as it was
LexApplyNoExit(r, alloc) ==
    /\ cursor' = r.cursor
    /\ line' = r.line
    /\ startp' = r.startp
    /\ live' = live + alloc
    /\ IF r.kind = "token"
       THEN /\ t' = r.tok
            /\ pc' = "ret"
            /\ UNCHANGED <<errs, status>>
       ELSE IF r.kind = "die"
       THEN /\ errs' = Append(errs, [line |-> r.line, msg |-> r.msg, arg |-> r.arg])
            /\ status' = 1
            /\ pc' = "ret"
            /\ UNCHANGED t
       ELSE /\ pc' = "lex"
            /\ UNCHANGED <<t, errs, status>>
    /\ UNCHANGED <<buf, entry, out, cli, usage>>

\* the effect of one pass of lex(): return to parse(), die() (lexer.c:58-69:
\* one diagnostic with the line counter, exit(1)), or goto start; alloc is
\* the number of buffers the pass allocated with malloc
LexApply(r, alloc) ==
    /\ cursor' = r.cursor
    /\ line' = r.line
    /\ startp' = r.startp
    /\ live' = live + alloc
    /\ IF r.kind = "token"
       THEN /\ t' = r.tok
            /\ pc' = "ret"
            /\ UNCHANGED <<errs, status>>
       ELSE IF r.kind = "die"
       THEN /\ errs' = Append(errs, [line |-> r.line, msg |-> r.msg, arg |-> r.arg])
            /\ status' = 1
            /\ pc' = "died"
            /\ UNCHANGED t
       ELSE /\ pc' = "lex"
            /\ UNCHANGED <<t, errs, status>>
    /\ UNCHANGED <<buf, entry, out, cli, usage>>

\* lexer.c:227-229
LexIdent ==
    /\ pc = "lex"
    /\ isalpha(SwitchChar) \/ SwitchChar = "_"
    /\ LexApply(LexPass(buf, cursor, line), 1)

\* lexer.c:231-233
LexNumber ==
    /\ pc = "lex"
    /\ isdigit(SwitchChar)
    /\ LexApply(LexPass(buf, cursor, line), 1)

\* lexer.c:235-293, 314-317
LexSymbol ==
    /\ pc = "lex"
    /\ SwitchChar \in SymbolChars
    /\ LexApply(LexPass(buf, cursor, line), 1)

\* lexer.c:295-302
LexAssign ==
    /\ pc = "lex"
    /\ SwitchChar = ":"
    /\ LexApply(LexPass(buf, cursor, line), 1)

\* lexer.c:304-306 the buffer of malloc(3) is dropped by goto start
LexComment ==
    /\ pc = "lex"
    /\ SwitchChar = "{"
    /\ LexApply(LexPass(buf, cursor, line), 1)

\* lexer.c:308, 314-317
LexEof ==
    /\ pc = "lex"
    /\ SwitchChar = NUL
    /\ LexApply(LexPass(buf, cursor, line), 1)

\* lexer.c:309-311
LexUnknown ==
    /\ pc = "lex"
    /\ ~(isalpha(SwitchChar) \/ SwitchChar = "_")
    /\ ~isdigit(SwitchChar)
    /\ SwitchChar \notin SymbolChars \cup {":", "{", NUL}
    /\ LexApply(LexPass(buf, cursor, line), 1)

\* lexer.c:327-328 the token is printed with the line counter and freed
PrintToken ==
    /\ pc = "ret"
    /\ out' = Append(out, [line |-> line, type |-> t.type, value |-> t.value])
    /\ live' = live - 1
    /\ pc' = "loop"
    /\ UNCHANGED <<buf, cursor, line, t, startp, entry, errs, status, cli, usage>>

Next ==
    \/ LoopEnter
    \/ LoopExit
    \/ LexIdent
    \/ LexNumber
    \/ LexSymbol
    \/ LexAssign
    \/ LexComment
    \/ LexEof
    \/ LexUnknown
    \/ PrintToken

Spec == Init /\ [][Next]_vars

(* ------------------------- the command line --------------------------- *)

\* file names given as argv[1]
FileNames == { <<"a", ".", "p", "l", "0">>, <<".", "p", "l", "0">>, <<"a">>,
               <<"a", ".", "p", "l">>, <<"a", ".", "p", "l", "0", "x">>,
               <<"a", ".", "p", "l", "0", ".", "t">>, <<"a", ".", "p", "l", "0", "/", "b">> }

\* what the system calls of readfile() do: all succeed, the file cannot be
\* opened, open() returns descriptor 0 because standard input is closed,
\* fstat() fails, malloc() fails, read() returns fewer bytes than the size
Envs == {"ok", "noent", "stdin_closed", "fstat_fail", "nomem", "short_read"}

\* the invocations: every argument count, file name and environment with an
\* empty file, and the well-formed invocation with every file content
Invocations ==
    { [argc |-> a, file |-> f, env |-> v, content |-> <<>>] :
          a \in 1..3, f \in FileNames, v \in Envs }
    \cup { [argc |-> 2, file |-> <<"a", ".", "p", "l", "0">>, env |-> "ok", content |-> s] :
          s \in Inputs }

\* lexer.c:107 strrchr(file, '.'): index of the last dot, 0 for NULL
LastDot(file) ==
    LET dots == { i \in 1..Len(file) : file[i] = "." }
    IN IF dots = {} THEN 0 ELSE CHOOSE i \in dots : \A j \in dots : j <= i

\* a suffix test that compares only the first four characters (strncmp)
EndsInPl0Prefix(file) ==
    LET k == LastDot(file)
    IN k # 0 /\ Len(file) >= k + 3 /\ SubSeq(file, k, k + 3) = <<".", "p", "l", "0">>

\* lexer.c:107-108 the test dotp != NULL && strcmp(dotp, ".pl0") == 0
EndsInPl0(file) ==
    LET k == LastDot(file)
    IN k # 0 /\ SubSeq(file, k, Len(file)) = <<".", "p", "l", "0">>

\* lexer.c:112 the value of open()
OpenFd(env) == IF env = "noent" THEN -1 ELSE IF env = "stdin_closed" THEN 0 ELSE 3

\* lexer.c:105-128 the message of the die() that readfile() reaches, "" when
\* it reaches none: the test !fd catches descriptor 0 only, a failed open()
\* is met by fstat() on descriptor -1
ReadfileError(c) ==
    IF ~EndsInPl0(c.file) THEN "File must end in '.pl0'"
    ELSE IF OpenFd(c.env) = 0 THEN "Unable to open file '%s'"
    ELSE IF OpenFd(c.env) = -1 \/ c.env = "fstat_fail" THEN "Unable to get file size"
    ELSE IF c.env = "nomem" THEN "Unable to malloc buffer for file content"
    ELSE IF c.env = "short_read" THEN "Unable to read file"
    ELSE ""

\* lexer.c:335-338 main() with a wrong argument count
MainUsage ==
    /\ pc = "main"
    /\ cli.argc # 2
    /\ usage' = Append(usage, <<"Usage: pl0c <file>\n">>)
    /\ status' = 1
    /\ pc' = "usage"
    /\ UNCHANGED <<buf, cursor, line, t, startp, entry, out, errs, live, cli>>

\* lexer.c:340, 105-133 main() calls readfile(), which dies or loads the file
\* and its terminating null; main() then calls parse()
MainReadfile ==
    /\ pc = "main"
    /\ cli.argc = 2
    /\ LET m == ReadfileError(cli)
       IN IF m # ""
          THEN /\ errs' = Append(errs, [line |-> line, msg |-> m,
                                        arg |-> IF OpenFd(cli.env) = 0 /\ EndsInPl0(cli.file)
                                                THEN "argv[1]" ELSE ""])
               /\ status' = 1
               /\ pc' = "died"
               /\ UNCHANGED buf
          ELSE /\ buf' = cli.content \o <<NUL>>
               /\ pc' = "loop"
               /\ UNCHANGED <<errs, status>>
    /\ UNCHANGED <<cursor, line, t, startp, entry, out, live, cli, usage>>

\* lexer.c:53-55, 333 the state when main() starts
InitCli ==
    /\ cli \in Invocations
    /\ buf = <<>>
    /\ cursor = 0
    /\ line = 1
    /\ t = make_token(<<>>, "IDENT")
    /\ startp = 0
    /\ entry = 0
    /\ pc = "main"
    /\ out = <<>>
    /\ errs = <<>>
    /\ status = -1
    /\ live = 0
    /\ usage = <<>>

NextCli ==
    \/ MainUsage
    \/ MainReadfile
    \/ LoopEnter
    \/ LoopExit
    \/ LexIdent
    \/ LexNumber
    \/ LexSymbol
    \/ LexAssign
    \/ LexComment
    \/ LexEof
    \/ LexUnknown
    \/ PrintToken

SpecCli == InitCli /\ [][NextCli]_vars

\* lexer.c:60-67 the line die() writes to the error stream, as the pieces of
\* its fprintf calls
DieLine(e) == <<"pl0c: error: ", e.line, ": ", e.msg, e.arg, "\n">>

\* the lines on the error stream
Stderr == usage \o [i \in 1..Len(errs) |-> DieLine(errs[i])]

(* ------------------------- claim vocabulary --------------------------- *)

\* number of newline characters at the offsets 0..n-1 of b
Newlines(b, n) == Cardinality({ i \in 1..n : b[i] = NL })

\* the character at which the returned token starts
StartChar == buf[startp + 1]

\* the source characters between the token start and the cursor
Span == SubSeq(buf, startp + 1, cursor)

\* the token kind the specification gives each one-character operator
SpecSymbolKind(ch) ==
    CASE ch = "=" -> "EQUAL"
      [] ch = "#" -> "HASH"
      [] ch = "<" -> "LT"
      [] ch = ">" -> "GT"
      [] ch = "+" -> "PLUS"
      [] ch = "-" -> "MINUS"
      [] ch = "*" -> "MULTIPLY"
      [] ch = "/" -> "DIVIDE"
      [] ch = "(" -> "LPAREN"
      [] ch = ")" -> "RPAREN"
      [] ch = "." -> "DOT"
      [] ch = "," -> "COMMA"
      [] ch = ";" -> "SEMICOLON"

\* the keyword kind the specification gives each keyword text
SpecKeywordKind(w) ==
    CASE w = <<"c","o","n","s","t">> -> "CONST"
      [] w = <<"v","a","r">> -> "VAR"
      [] w = <<"p","r","o","c","e","d","u","r","e">> -> "PROCEDURE"
      [] w = <<"c","a","l","l">> -> "CALL"
      [] w = <<"b","e","g","i","n">> -> "BEGIN"
      [] w = <<"e","n","d">> -> "END"
      [] w = <<"i","f">> -> "IF"
      [] w = <<"t","h","e","n">> -> "THEN"
      [] w = <<"w","h","i","l","e">> -> "WHILE"
      [] w = <<"d","o">> -> "DO"
      [] w = <<"o","d","d">> -> "ODD"

IsRunChar(ch) == ch \in Lower \cup Upper \cup {"_"} \/ \E i \in 1..10 : DigitChars[i] = ch

\* TRUE when a closing brace follows offset p
HasClose(b, p) == \E i \in (p + 2)..Len(b) : b[i] = "}"

\* offset of the first closing brace after offset p
FirstClose(b, p) ==
    (CHOOSE i \in (p + 2)..Len(b) : b[i] = "}" /\ \A j \in (p + 2)..(i - 1) : b[j] # "}") - 1

\* b with every comment met from offset p up to the next token replaced by
\* spaces: a comment runs from an opening brace to the first closing brace
RECURSIVE BlankComments(_, _)
BlankComments(b, p) ==
    LET ch == b[p + 1]
    IN IF ch \in {" ", "\t", "\n", "\f", "\r"} THEN BlankComments(b, p + 1)
       ELSE IF ch = "{" /\ HasClose(b, p)
       THEN LET q == FirstClose(b, p)
            IN BlankComments([i \in 1..Len(b) |-> IF p + 1 <= i /\ i <= q + 1 THEN " " ELSE b[i]],
                             q + 1)
       ELSE b

\* offsets of the opening braces that no closing brace follows
Unterminated(b) == { p \in 0..(Len(b) - 1) : b[p + 1] = "{" /\ ~HasClose(b, p) }

(* ------------------------------ claims -------------------------------- *)

\* C1: a one-character operator at the cursor gives the token kind of that
\* character (= gives EQUAL, and so on), two different characters never give
\* the same kind, and the cursor advances by exactly one character.
C1_SymbolKinds ==
    /\ (pc = "ret" /\ StartChar \in SymbolChars) =>
            /\ t.type = SpecSymbolKind(StartChar)
            /\ cursor = startp + 1
    /\ \A a, b \in SymbolChars : a # b => SpecSymbolKind(a) # SpecSymbolKind(b)

\* C2: the text of every token produced from source characters equals the
\* source substring between the token start and the cursor after the call.
C2_TextIsSourceSpan ==
    (pc = "ret" /\ StartChar # NUL) => t.value = Span

\* C3: every token returned by lex has a non-empty text, the end-of-input
\* token and a one-character token that ends the buffer included.
C3_TextNonEmpty ==
    pc = "ret" => t.value # <<>>

\* C4: the emitted sequence of a run without lexical error ends with a DOT
\* token, that DOT is the only one, nothing is emitted after it, and at the
\* terminating null lex returns DOT without moving the cursor.
C4_EndsWithOneDot ==
    /\ \A i \in 1..(Len(out) - 1) : out[i].type # "DOT"
    /\ pc = "done" => (Len(out) > 0 /\ out[Len(out)].type = "DOT")
    /\ (Len(out) > 0 /\ out[Len(out)].type = "DOT") => pc \in {"loop", "done"}
    /\ (pc = "ret" /\ StartChar = NUL) => (t.type = "DOT" /\ cursor = startp)

C4_Witness ==
    /\ pc = "done"
    /\ Len(out) = 3
    /\ cursor = NullOffset(buf)
    /\ startp = cursor

\* C5: the line printed with a token is 1 plus the number of newlines before
\* the first character of the token, also after a comment that spans lines.
C5_TokenLine ==
    [][Len(out') > Len(out) =>
         out'[Len(out')].line = 1 + Newlines(buf, startp)]_vars

C5_Witness ==
    /\ Len(out) = 1
    /\ out[1].line = 2
    /\ buf[1] = "{"
    /\ buf[2] = NL
    /\ buf[3] = "}"

\* C6: the line counter is 1 plus the number of newlines in the consumed
\* prefix of the source; it never decreases and the lines of the emitted
\* tokens are non-decreasing.
C6_LineCountsNewlines ==
    /\ [](line = 1 + Newlines(buf, cursor))
    /\ [](\A i, j \in 1..Len(out) : i <= j => out[i].line <= out[j].line)
    /\ [][line' >= line]_vars

C6_Witness ==
    /\ Len(out) = 2
    /\ out[1].line = 1
    /\ out[2].line = 2
    /\ buf[cursor] = NL

\* C7: a maximal run of letters, digits and underscores that starts with a
\* letter or underscore is a keyword token exactly when its text is one of
\* the eleven keywords, and an IDENT otherwise.
C7_KeywordExact ==
    (pc = "ret" /\ (StartChar \in Lower \cup Upper \cup {"_"})) =>
        /\ cursor > startp
        /\ \A i \in (startp + 1)..cursor : IsRunChar(buf[i])
        /\ ~IsRunChar(buf[cursor + 1])
        /\ t.value = Span
        /\ t.type = IF Span \in Keywords THEN SpecKeywordKind(Span) ELSE "IDENT"

C7_Witness ==
    /\ pc = "ret"
    /\ t.type = "IDENT"
    /\ t.value = <<"i", "f", "x">>

\* C8: at ':' lex returns ASSIGN with text ":=" and advances by two when the
\* next character is '=', and otherwise dies with the "unknown token" error
\* (lexer.c:297 spells it "Unkown token") without emitting a token.
C8_ColonNeedsEqual ==
    [][(pc = "lex" /\ buf[startp' + 1] = ":") =>
         IF buf[startp' + 2] = "="
         THEN /\ pc' = "ret"
              /\ t' = [value |-> <<":", "=">>, type |-> "ASSIGN"]
              /\ cursor' = startp' + 2
         ELSE /\ pc' = "died"
              /\ status' = 1
              /\ errs' = <<[line |-> line', msg |-> "Unkown token: '%c'",
                            arg |-> buf[startp' + 2]]>>
              /\ out' = out
              /\ t' = t
              /\ (entry = 0 => out' = <<>>)]_vars

C8_Witness ==
    /\ pc = "ret"
    /\ StartChar = ":"
    /\ t.type = "ASSIGN"
    /\ Len(out) = 1

\* C9: a comment runs to the first closing brace, gives no token, and the
\* token returned after it has the kind and text that lex returns when the
\* comment is replaced by whitespace.
C9_CommentTransparent ==
    (pc = "ret" /\ \E i \in (entry + 1)..startp : buf[i] = "{") =>
        LET r == lex(BlankComments(buf, entry), entry, 1)
        IN /\ r.kind = "token"
           /\ r.tok = t
           /\ r.cursor = cursor
           /\ r.startp = startp

C9_Witness ==
    /\ pc = "ret"
    /\ entry = 0
    /\ buf[1] = "{"
    /\ buf[2] = "{"
    /\ buf[3] = "}"
    /\ startp = 3
    /\ t.type = "IDENT"

\* C10: an opening brace that is reached and has no closing brace before the
\* terminating null ends the run with the "Unterminated comment" error and
\* exit status 1, and no token that starts at or after the brace is emitted.
C10_UnterminatedComment ==
    [][/\ (pc = "lex" /\ startp' \in Unterminated(buf)) =>
            /\ pc' = "died"
            /\ status' = 1
            /\ errs' = <<[line |-> line', msg |-> "Unterminated comment", arg |-> ""]>>
            /\ out' = out
       /\ Len(out') > Len(out) => \A u \in Unterminated(buf) : startp < u]_vars

C10_Witness ==
    /\ pc = "died"
    /\ errs = <<[line |-> 1, msg |-> "Unterminated comment", arg |-> ""]>>
    /\ Len(out) = 1
    /\ status = 1
\* offset after the maximal run of digits that starts at offset p
DigitRunEnd(b, p) ==
    CHOOSE e \in (p + 1)..(Len(b) - 1) :
        /\ \A i \in (p + 1)..e : \E k \in 1..10 : DigitChars[k] = b[i]
        /\ ~(\E k \in 1..10 : DigitChars[k] = b[e + 1])

\* the digits of d from the first non-zero digit on
Significant(d) ==
    LET nz == { i \in 1..Len(d) : d[i] # "0" }
    IN IF nz = {} THEN <<>>
       ELSE SubSeq(d, CHOOSE i \in nz : \A j \in nz : i <= j, Len(d))

\* TRUE when the base-10 value of the digit string d is at most LONG_MAX of a
\* 64-bit long, 9223372036854775807
FitsLong(d) ==
    LET s == Significant(d)
        m == LongMaxDigits
        diff == { i \in 1..Len(m) : Len(s) = Len(m) /\ s[i] # m[i] }
    IN \/ Len(s) < Len(m)
       \/ /\ Len(s) = Len(m)
          /\ \/ diff = {}
             \/ LET k == CHOOSE i \in diff : \A j \in diff : i <= j
                IN DigitVal(s[k]) < DigitVal(m[k])

\* C11: at a digit lex consumes the maximal run of digits; a representable
\* value gives a NUMBER token whose text is the run, a value out of range
\* ends the run with the "Invalid number" error and no NUMBER is emitted.
C11_NumberRange ==
    [][(pc = "lex" /\ (\E k \in 1..10 : DigitChars[k] = buf[startp' + 1])) =>
         LET e == DigitRunEnd(buf, startp')
             run == SubSeq(buf, startp' + 1, e)
         IN /\ cursor' = e
            /\ IF FitsLong(run)
               THEN /\ pc' = "ret"
                    /\ t' = [value |-> run, type |-> "NUMBER"]
               ELSE /\ pc' = "died"
                    /\ status' = 1
                    /\ errs' = <<[line |-> line', msg |-> "Invalid number", arg |-> ""]>>
                    /\ out' = out
                    /\ t' = t]_vars

C11_Witness ==
    /\ pc = "died"
    /\ errs = <<[line |-> 1, msg |-> "Invalid number", arg |-> ""]>>
    /\ Span = LongMaxPlus1
    /\ Len(out) = 1

\* the characters lex accepts at the start of a token, a comment or the end
KnownStart(ch) ==
    \/ ch \in Lower \cup Upper \cup {"_", ":", "{", NUL}
    \/ ch \in SymbolChars
    \/ \E k \in 1..10 : DigitChars[k] = ch

\* C12: a character that starts no token, comment or end of input ends the
\* run with a diagnostic that carries that character and the line counter.
C12_UnknownCharacter ==
    [][(pc = "lex" /\ ~KnownStart(buf[startp' + 1])) =>
         /\ pc' = "died"
         /\ status' = 1
         /\ line' = 1 + Newlines(buf, startp')
         /\ errs' = <<[line |-> line', msg |-> "Unkown token '%c'",
                       arg |-> buf[startp' + 1]]>>
         /\ out' = out]_vars

C12_Witness ==
    /\ pc = "died"
    /\ errs = <<[line |-> 2, msg |-> "Unkown token '%c'", arg |-> "}"]>>
    /\ buf[1] = NL

\* C13 as claimed: a run that ends in a lexical error gives exactly one
\* diagnostic and delivers no token of the input to the output.
C13_NoPartialStream ==
    pc = "died" => (Len(errs) = 1 /\ out = <<>>)

\* C13 as amended: a run that ends in a lexical error gives exactly one
\* diagnostic; the tokens printed before the failing call of lex stay on the
\* output, and after the failure no token is printed and the run does not
\* go on.
C13_NothingAfterFailure ==
    /\ [](pc = "died" <=> Len(errs) = 1)
    /\ [](Len(errs) <= 1)
    /\ [][Len(out') > Len(out) => (errs = <<>> /\ errs' = <<>>)]_vars
    /\ [][pc = "died" => UNCHANGED vars]_vars

C13_Witness ==
    /\ pc = "died"
    /\ Len(errs) = 1
    /\ Len(out) = 1
    /\ out[1].type = "IDENT"
\* C14: every read of the source buffer by the scanner is at an offset no
\* greater than the offset of the terminating null, and the buffer is never
\* modified.
C14_ReadsInBounds ==
    /\ [](pc = "lex" => HighRead(buf, LexPass(buf, cursor, line)) <= NullOffset(buf))
    /\ [](pc # "died" => cursor <= NullOffset(buf))
    /\ [][buf' = buf]_vars

C14_Witness ==
    /\ pc = "lex"
    /\ cursor > 0
    /\ buf[cursor + 1] \in SymbolChars
    /\ HighRead(buf, LexPass(buf, cursor, line)) = NullOffset(buf)

\* C15: the cursor never decreases, and a call of lex that returns a token
\* other than the DOT of the end of input leaves the cursor strictly greater
\* than it was at the start of the call.
C15_CursorAdvances ==
    /\ [][cursor' >= cursor]_vars
    /\ []((pc = "ret" /\ StartChar # NUL) => cursor > entry)

C15_Witness ==
    /\ pc = "ret"
    /\ buf[1] = "{"
    /\ startp > entry
    /\ cursor > startp
    /\ StartChar # NUL

\* C16: the text of an emitted IDENT or NUMBER token, scanned alone, gives as
\* first token a token of the same kind with the same text.
C16_RoundTrip ==
    (pc = "ret" /\ t.type \in {"IDENT", "NUMBER"}) =>
        LET r == lex(t.value \o <<NUL>>, 0, 1)
        IN /\ r.kind = "token"
           /\ r.tok.type = t.type
           /\ r.tok.value = t.value

C16_Witness ==
    /\ pc = "ret"
    /\ t.type = "NUMBER"
    /\ t.value = <<"7">>
    /\ buf[cursor + 1] = "x"
\* TRUE for exactly one argument that names an openable file ending in .pl0
GoodInvocation(c) ==
    /\ c.argc = 2
    /\ Len(c.file) >= 4
    /\ SubSeq(c.file, Len(c.file) - 3, Len(c.file)) = <<".", "p", "l", "0">>
    /\ c.env # "noent"

\* C17 as claimed: every invocation other than one argument naming an
\* openable file that ends in .pl0 exits with status 1 and a message on the
\* error stream that begins with "pl0c: error:"; a run without error exits 0.
C17_CliErrorPrefix ==
    /\ (pc # "main" /\ ~GoodInvocation(cli)) =>
            /\ status = 1
            /\ Stderr # <<>>
            /\ Stderr[1][1] = "pl0c: error: "
    /\ pc = "done" => status = 0

\* C17 as amended: a wrong argument count exits with status 1 and the line
\* "Usage: pl0c <file>" on the error stream, without the prefix; one argument
\* with a wrong suffix or naming an unopenable file exits with status 1 and
\* one line that begins with "pl0c: error:"; a run without error exits 0.
C17_CliUsageOrError ==
    /\ (pc # "main" /\ cli.argc # 2) =>
            /\ status = 1
            /\ Stderr = << <<"Usage: pl0c <file>\n">> >>
    /\ (pc # "main" /\ cli.argc = 2 /\ ~GoodInvocation(cli)) =>
            /\ status = 1
            /\ Len(Stderr) = 1
            /\ Stderr[1][1] = "pl0c: error: "
    /\ pc = "done" => (status = 0 /\ Stderr = <<>>)

C17_Witness ==
    /\ pc = "usage"
    /\ cli.argc = 3
    /\ status = 1
\* number of calls of lex made so far
Calls == Len(out) + (IF pc \in {"lex", "ret", "died"} THEN 1 ELSE 0)

\* a measure of the work left: the characters not yet consumed, then the
\* place in the loop of parse()
Rank ==
    4 * (Len(buf) - cursor)
    + (CASE pc \in {"done", "died"} -> 0
         [] pc = "loop" /\ t.type = "DOT" -> 1
         [] pc = "ret" /\ t.type = "DOT" -> 2
         [] pc = "lex" -> 3
         [] pc = "loop" /\ t.type # "DOT" -> 4
         [] pc = "ret" /\ t.type # "DOT" -> 6)

\* C18: the driver loop terminates for every input: lex is called at most
\* (input length + 1) times, every step of the run lowers a measure that is
\* never negative (so also the pass of lex that skips a comment), and until
\* the run has printed "done" after a DOT or has ended in a fatal error a
\* step is possible: the driver can move, and a pass of lex has a result.
C18_Terminates ==
    /\ [](Calls <= NullOffset(buf) + 1)
    /\ [](Rank >= 0)
    /\ [][Rank' < Rank]_vars
    /\ [](pc \in {"loop", "ret"} => ENABLED (LoopEnter \/ LoopExit \/ PrintToken))
    /\ [](pc = "lex" => LexPass(buf, cursor, line).kind \in {"token", "die", "again"})
    /\ [](pc \in {"loop", "lex", "ret", "done", "died"})
    /\ [](pc = "done" => (out # <<>> /\ out[Len(out)].type = "DOT"))

C18_Witness ==
    /\ pc = "done"
    /\ buf = <<"{", "x", "}", " ", NUL>>
    /\ Calls = 1
\* C19: after the first DOT token, from an explicit '.' or from the
\* terminating null, lex is called no more; the source characters after an
\* explicit '.' are never read, give no token and raise no error.
C19_NothingAfterDot ==
    /\ t.type = "DOT" => (pc \in {"ret", "loop", "done"} /\ errs = <<>>)
    /\ (pc \in {"loop", "done"} /\ t.type = "DOT") => out[Len(out)].type = "DOT"
    /\ (pc = "ret" /\ t.type = "DOT" /\ StartChar = ".") =>
            LET h == HighRead(buf, [startp |-> startp, cursor |-> cursor])
            IN h <= startp \/ h >= NullOffset(buf)

\* C20: on a run that completes without error every buffer allocated by lex
\* is the text of one emitted token and is freed by the driver after the
\* token is printed; no such buffer is live between two calls of lex or when
\* parse returns.
C20_NoLeak ==
    pc \in {"loop", "done"} => live = 0
====
